---- MODULE Spec2Model ----
(***************************************************************************)
(* A model of pipe_tools (src/src/main.rs): a terminal filter that reads   *)
(* lines from a pipe, highlights the filter term in each and prints them,  *)
(* while a key listener on /dev/tty edits the filter term and a quit       *)
(* channel ends the program.                                               *)
(*                                                                         *)
(* Text is modelled as sequences of byte codes (97 is 'a', 27 is ESC), so  *)
(* that the byte dispatch of the key listener and the escape sequences     *)
(* written to the streams are those of the source.                         *)
(***************************************************************************)
EXTENDS Integers, Sequences, FiniteSets, TLC

VARIABLES
    mainpc,        \* position of the main thread in main()
    readerpc,      \* pipe reader thread: "none" (not spawned), "read", "done"
    printerpc,     \* pipe printer thread: "none", "lock", "recv", "snapshot", "write", "done"
    keypc,         \* key listener thread: "none", "read", "edit", "mutate", "status", "restore", "done"
    is_pipe,       \* !isatty(stdin)
    pipe,          \* the lines the pipe delivers before end-of-stream
    rpos,          \* how many of them the reader has read
    lineq,         \* the tx_pipe/rx_pipe channel: lines sent and not yet received
    rx_alive,      \* rx_pipe has not been dropped
    pr_line,       \* the printer's `line`
    pr_filter,     \* the printer's `current_filter`
    stdout,        \* the writes made to the primary output stream, in order
    stdout_lock,   \* the owner of the stdout lock: "none", "printer"
    quit_sent,     \* the threads that have sent on the quit channel
    filter,        \* filter_string
    filter_lock,   \* the owner of the filter_string mutex: "none", "key"
    filter0,       \* the value filter_string was created with
    status_lines,  \* StatusArea.status_lines
    tty,           \* the writes made to /dev/tty, in order: redraws and texts
    ttyin,         \* the bytes the user types on the terminal
    kpos,          \* how many of them the key listener has read
    keybuf,        \* the key listener's buf[0]
    tty_lflags,    \* the terminal's local mode flags (ICANON, ECHO)
    orig_termios,  \* the flags captured by tcgetattr
    hl_string,     \* highlight_word_in_string: argument `string`
    hl_word,       \* highlight_word_in_string: argument `word`
    hl_result,     \* highlight_word_in_string: the value returned
    hl_called      \* highlight_word_in_string has returned

vars == <<mainpc, readerpc, printerpc, keypc, is_pipe, pipe, rpos, lineq, rx_alive,
          pr_line, pr_filter, stdout, stdout_lock, quit_sent, filter, filter_lock,
          filter0, status_lines, tty, ttyin, kpos, keybuf, tty_lflags, orig_termios,
          hl_string, hl_word, hl_result, hl_called>>

hlVars == <<hl_string, hl_word, hl_result, hl_called>>

progVars == <<mainpc, readerpc, printerpc, keypc, is_pipe, pipe, rpos, lineq, rx_alive,
              pr_line, pr_filter, stdout, stdout_lock, quit_sent, filter, filter_lock,
              filter0, status_lines, tty, ttyin, kpos, keybuf, tty_lflags, orig_termios>>

----------------------------------------------------------------------------
(* Bounds of the model. *)

MaxLines == 2        \* lines in the pipe
MaxKeys == 2         \* bytes typed on the terminal
MaxStrLen == 4       \* length of `string` in the highlight specification
MaxWordLen == 2      \* length of `word` in the highlight specification
MaxEditKeys == 4     \* bytes typed in the filter-edit specification
MaxFilterLen == 2    \* length of the starting filter in the filter-edit specification
Rows == 24           \* terminal height reported by get_terminal_size

SeqsUpTo(S, n) == UNION {[1..k -> S] : k \in 0..n}

----------------------------------------------------------------------------
(* Byte codes and escape sequences of the source. *)

ESC == 27
NL == 10
KEY_Q == 113

RECURSIVE Dec(_)
Dec(n) == IF n < 10 THEN <<48 + n>> ELSE Dec(n \div 10) \o <<48 + (n % 10)>>

HL == <<ESC, 91, 51, 55, 59, 49, 48, 49, 109>>      \* "\x1B[37;101m"
RESET == <<ESC, 91, 48, 109>>                       \* "\x1B[0m"
BG_BLUE == <<ESC, 91, 52, 52, 109>>                 \* "\x1b[44m"
SAVE_CURSOR == <<ESC, 91, 115>>                     \* "\x1B[s"
RESTORE_CURSOR == <<ESC, 91, 117>>                  \* "\x1B[u"
CLEAR_SCREEN == <<ESC, 91, 50, 74>>                 \* "\x1B[2J"
CLEAR_LINE == <<ESC, 91, 50, 75>>                   \* "\x1B[2K"
CURSOR_DOWN == <<ESC, 91, 49, 66>>                  \* "\x1B[1B"
RESET_REGION == <<ESC, 91, 48, 114>>                \* "\x1B[0r"

\* "\x1B[{};{}r" with top + 1 and bottom + 1
ScrollRegionSeq(top, bottom) == <<ESC, 91>> \o Dec(top + 1) \o <<59>> \o Dec(bottom + 1) \o <<114>>

\* "\x1B[{};1H"
MoveToRow(row) == <<ESC, 91>> \o Dec(row) \o <<59, 49, 72>>

DefaultFilter == <<115, 116, 114, 101, 97, 109>>    \* "stream"

\* format!("Filter [\x1B[37;101m{}\x1b[44m]", filter)
StatusText(f) == <<70, 105, 108, 116, 101, 114, 32, 91>> \o HL \o f \o BG_BLUE \o <<93>>

QUITTING == <<81, 117, 105, 116, 116, 105, 110, 103, 46, 46, 46, NL>>   \* "Quitting...\n"

\* writeln!(term_out, "rows {} ", rows)
RowsText(rows) == <<114, 111, 119, 115, 32>> \o Dec(rows) \o <<32, NL>>

----------------------------------------------------------------------------
(* highlight_word_in_string and the str methods it calls. *)

IsMatchAt(s, w, i) == i + Len(w) - 1 <= Len(s) /\ SubSeq(s, i, i + Len(w) - 1) = w

\* str::find: the index of the first match, 0 for None
str_find(s, w) ==
    IF \E i \in 1..(Len(s) + 1) : IsMatchAt(s, w, i)
    THEN CHOOSE i \in 1..(Len(s) + 1) :
            IsMatchAt(s, w, i) /\ \A j \in 1..(i - 1) : ~IsMatchAt(s, w, j)
    ELSE 0

\* str::replace: every non-overlapping match, found left to right, is replaced;
\* the empty pattern matches at every character boundary
RECURSIVE replace_scan(_, _, _, _)
replace_scan(s, from, to, pos) ==
    IF IsMatchAt(s, from, pos)
    THEN to \o (IF from = <<>>
                THEN (IF pos > Len(s) THEN <<>>
                      ELSE <<s[pos]>> \o replace_scan(s, from, to, pos + 1))
                ELSE replace_scan(s, from, to, pos + Len(from)))
    ELSE IF pos > Len(s) THEN <<>>
         ELSE <<s[pos]>> \o replace_scan(s, from, to, pos + 1)

str_replace(s, from, to) == replace_scan(s, from, to, 1)

\* Mutant: only the first match is replaced (str::replacen with a count of 1).
highlight_first_only(string, word) ==
    LET p == str_find(string, word)
    IN IF p # 0
       THEN SubSeq(string, 1, p - 1) \o HL \o word \o RESET
                \o SubSeq(string, p + Len(word), Len(string))
       ELSE string

\* Mutant: the search pattern is cut one byte short of the word.
highlight_short_match(string, word) ==
    LET w == SubSeq(word, 1, Len(word) - 1)
    IN IF str_find(string, w) # 0
       THEN str_replace(string, w, HL \o word \o RESET)
       ELSE string

highlight_word_in_string(string, word) ==
    IF str_find(string, word) # 0
    THEN str_replace(string, word, HL \o word \o RESET)
    ELSE string

----------------------------------------------------------------------------
(* StatusArea *)

\* A write to /dev/tty: a redraw of the status area, or a text
TtyRedraw(lines) == [op |-> "redraw", lines |-> lines]
TtyText(bytes) == [op |-> "text", lines |-> <<bytes>>]

\* StatusArea::redraw: the bytes written to /dev/tty
redraw(lines) ==
    SAVE_CURSOR \o MoveToRow(Rows - 2) \o BG_BLUE
    \o CLEAR_LINE \o CURSOR_DOWN \o CLEAR_LINE \o CURSOR_DOWN \o CLEAR_LINE \o CURSOR_DOWN
    \o MoveToRow(Rows - 2)
    \o lines[1] \o <<NL>> \o lines[2] \o <<NL>> \o lines[3] \o <<NL>>
    \o ScrollRegionSeq(0, Rows - 4)
    \o RESTORE_CURSOR \o RESET

\* StatusArea::update(line, text): status_lines after it (line is 0-based)
update_lines(lines, line, text) ==
    IF line < 3 THEN [lines EXCEPT ![line + 1] = text] ELSE lines

\* StatusArea::update(line, text): the writes it makes to /dev/tty
update_writes(lines, line, text) ==
    IF line < 3 THEN <<TtyRedraw(update_lines(lines, line, text))>> ELSE <<>>

\* the bytes of a write to /dev/tty
tty_bytes(w) == IF w.op = "redraw" THEN redraw(w.lines) ELSE w.lines[1]

----------------------------------------------------------------------------
(* Key listener: the dispatch on the byte read, in the order of the match arms. *)

\* Mutant: the printable range is tested before the quit key.
KeyBranchRangeFirst(b) ==
    IF b = 8 \/ b = 127 THEN "backspace"
    ELSE IF b >= 32 /\ b <= 126 THEN "printable"
    ELSE IF b = KEY_Q THEN "quit"
    ELSE "ignore"

KeyBranch(b) ==
    IF b = KEY_Q THEN "quit"
    ELSE IF b = 8 \/ b = 127 THEN "backspace"
    ELSE IF b >= 32 /\ b <= 126 THEN "printable"
    ELSE "ignore"

\* Mutant: the guard tests for more than one character instead of non-empty.
filter_pop_keep_one(f) == IF Len(f) > 1 THEN SubSeq(f, 1, Len(f) - 1) ELSE f

\* filter.pop() under `if !filter.is_empty()`
filter_pop(f) == IF f # <<>> THEN SubSeq(f, 1, Len(f) - 1) ELSE f

\* filter.push(buf[0] as char)
filter_push(f, b) == Append(f, b)

----------------------------------------------------------------------------
(* Inputs. *)

\* "x" and "streama": the second holds the default filter, and the default
\* filter with an 'a' typed after it
PipeLines == { <<120>>, <<115, 116, 114, 101, 97, 109, 97>> }

\* 'q', delete, 'a'
MainKeys == {KEY_Q, 127, 97}

\* the whole default filter erased, one backspace per character
EraseAll == [i \in 1..Len(DefaultFilter) |-> 127]

\* a control byte no arm handles (Ctrl-A), then 'a'
IgnoredThenEdit == <<1, 97>>

KeyScripts == SeqsUpTo(MainKeys, MaxKeys) \cup {EraseAll, IgnoredThenEdit}

\* the terminal as the program finds it: cooked, with echo
LocalFlagSets == { {"ICANON", "ECHO"} }

HlIdle ==
    /\ hl_string = <<>>
    /\ hl_word = <<>>
    /\ hl_result = <<>>
    /\ hl_called = FALSE

\* The state at the start of main(), after `filter_string` is created.
Init ==
    /\ mainpc = "start"
    /\ readerpc = "none"
    /\ printerpc = "none"
    /\ keypc = "none"
    /\ is_pipe \in BOOLEAN
    /\ pipe \in (IF is_pipe THEN SeqsUpTo(PipeLines, MaxLines) ELSE {<<>>})
    /\ rpos = 0
    /\ lineq = <<>>
    /\ rx_alive = TRUE
    /\ pr_line = <<>>
    /\ pr_filter = <<>>
    /\ stdout = <<>>
    /\ stdout_lock = "none"
    /\ quit_sent = {}
    /\ filter = DefaultFilter
    /\ filter_lock = "none"
    /\ filter0 = DefaultFilter
    /\ status_lines = <<<<>>, <<>>, <<>>>>
    /\ tty = <<>>
    /\ ttyin \in KeyScripts
    /\ kpos = 0
    /\ keybuf = 0
    /\ tty_lflags \in LocalFlagSets
    /\ orig_termios = {}
    /\ HlIdle

\* The process is running: main has not returned.
Alive == mainpc # "exited"

----------------------------------------------------------------------------
(* main thread *)

\* Mutant: the key listener is spawned before the initial status bar is drawn.
MainSetupSpawnsListener ==
    /\ mainpc = "start"
    /\ stdout' = stdout \o <<SAVE_CURSOR, CLEAR_SCREEN, ScrollRegionSeq(0, Rows - 4)>>
    /\ mainpc' = "draw"
    /\ keypc' = "read"
    /\ UNCHANGED <<readerpc, printerpc, is_pipe, pipe, rpos, lineq, rx_alive,
                   pr_line, pr_filter, stdout_lock, quit_sent, filter, filter_lock,
                   filter0, status_lines, tty, ttyin, kpos, keybuf, tty_lflags,
                   orig_termios>>
    /\ UNCHANGED hlVars

\* main.rs 114-122: terminal setup on stdout
MainSetup ==
    /\ mainpc = "start"
    /\ stdout' = stdout \o <<SAVE_CURSOR, CLEAR_SCREEN, ScrollRegionSeq(0, Rows - 4)>>
    /\ mainpc' = "draw"
    /\ UNCHANGED <<readerpc, printerpc, keypc, is_pipe, pipe, rpos, lineq, rx_alive,
                   pr_line, pr_filter, stdout_lock, quit_sent, filter, filter_lock,
                   filter0, status_lines, tty, ttyin, kpos, keybuf, tty_lflags,
                   orig_termios>>
    /\ UNCHANGED hlVars

\* main.rs 124-151: the initial status bar and the "rows" line on /dev/tty, with
\* the cursor restored on stdout in between
MainDraw ==
    /\ mainpc = "draw"
    /\ LET l0 == update_lines(status_lines, 0, <<>>)
           l1 == update_lines(l0, 1, StatusText(filter))
           l2 == update_lines(l1, 2, <<>>)
       IN /\ status_lines' = l2
          /\ tty' = tty \o update_writes(status_lines, 0, <<>>)
                        \o update_writes(l0, 1, StatusText(filter))
                        \o update_writes(l1, 2, <<>>)
                        \o <<TtyRedraw(l2)>>
                        \o <<TtyText(RowsText(Rows))>>
    /\ stdout' = Append(stdout, RESTORE_CURSOR)
    /\ mainpc' = "spawn_pipe"
    /\ UNCHANGED <<readerpc, printerpc, keypc, is_pipe, pipe, rpos, lineq, rx_alive,
                   pr_line, pr_filter, stdout_lock, quit_sent, filter, filter_lock,
                   filter0, ttyin, kpos, keybuf, tty_lflags, orig_termios>>
    /\ UNCHANGED hlVars

\* main.rs 160-191: the reader and printer threads are spawned only for a pipe
MainSpawnPipe ==
    /\ mainpc = "spawn_pipe"
    /\ readerpc' = (IF is_pipe THEN "read" ELSE "none")
    /\ printerpc' = (IF is_pipe THEN "lock" ELSE "none")
    /\ mainpc' = "raw"
    /\ UNCHANGED <<keypc, is_pipe, pipe, rpos, lineq, rx_alive, pr_line, pr_filter,
                   stdout, stdout_lock, quit_sent, filter, filter_lock, filter0,
                   status_lines, tty, ttyin, kpos, keybuf, tty_lflags, orig_termios>>
    /\ UNCHANGED hlVars

\* main.rs 194-276: capture the terminal mode, enter raw mode, spawn the key listener
MainRawMode ==
    /\ mainpc = "raw"
    /\ orig_termios' = tty_lflags
    /\ tty_lflags' = tty_lflags \ {"ICANON", "ECHO"}
    /\ keypc' = "read"
    /\ mainpc' = "recv"
    /\ UNCHANGED <<readerpc, printerpc, is_pipe, pipe, rpos, lineq, rx_alive, pr_line,
                   pr_filter, stdout, stdout_lock, quit_sent, filter, filter_lock,
                   filter0, status_lines, tty, ttyin, kpos, keybuf>>
    /\ UNCHANGED hlVars

\* Mutant: main does not wait for a message on the quit channel.
MainRecvNoWait ==
    /\ mainpc = "recv"
    /\ mainpc' = "reset"
    /\ UNCHANGED <<readerpc, printerpc, keypc, is_pipe, pipe, rpos, lineq, rx_alive,
                   pr_line, pr_filter, stdout, stdout_lock, quit_sent, filter,
                   filter_lock, filter0, status_lines, tty, ttyin, kpos, keybuf,
                   tty_lflags, orig_termios>>
    /\ UNCHANGED hlVars

\* main.rs 278: quit_rx.recv() returns once a message has been sent
MainRecv ==
    /\ mainpc = "recv"
    /\ quit_sent # {}
    /\ mainpc' = "reset"
    /\ UNCHANGED <<readerpc, printerpc, keypc, is_pipe, pipe, rpos, lineq, rx_alive,
                   pr_line, pr_filter, stdout, stdout_lock, quit_sent, filter,
                   filter_lock, filter0, status_lines, tty, ttyin, kpos, keybuf,
                   tty_lflags, orig_termios>>
    /\ UNCHANGED hlVars

\* main.rs 279: reset_scroll_region() writes to stdout, which takes the stdout lock
MainReset ==
    /\ mainpc = "reset"
    /\ stdout_lock = "none"
    /\ stdout' = Append(stdout, RESET_REGION)
    /\ mainpc' = "return"
    /\ UNCHANGED <<readerpc, printerpc, keypc, is_pipe, pipe, rpos, lineq, rx_alive,
                   pr_line, pr_filter, stdout_lock, quit_sent, filter, filter_lock,
                   filter0, status_lines, tty, ttyin, kpos, keybuf, tty_lflags,
                   orig_termios>>
    /\ UNCHANGED hlVars

\* main.rs 280: main returns and the process ends, whatever the other threads are doing
MainExit ==
    /\ mainpc = "return"
    /\ mainpc' = "exited"
    /\ UNCHANGED <<readerpc, printerpc, keypc, is_pipe, pipe, rpos, lineq, rx_alive,
                   pr_line, pr_filter, stdout, stdout_lock, quit_sent, filter,
                   filter_lock, filter0, status_lines, tty, ttyin, kpos, keybuf,
                   tty_lflags, orig_termios>>
    /\ UNCHANGED hlVars

----------------------------------------------------------------------------
(* pipe reader thread, main.rs 163-172 *)

\* one line read and sent; the send fails, and is ignored, once rx_pipe is dropped
ReaderSend ==
    /\ Alive
    /\ readerpc = "read"
    /\ rpos < Len(pipe)
    /\ rpos' = rpos + 1
    /\ lineq' = (IF rx_alive THEN Append(lineq, pipe[rpos + 1]) ELSE lineq)
    /\ UNCHANGED <<mainpc, readerpc, printerpc, keypc, is_pipe, pipe, rx_alive, pr_line,
                   pr_filter, stdout, stdout_lock, quit_sent, filter, filter_lock,
                   filter0, status_lines, tty, ttyin, kpos, keybuf, tty_lflags,
                   orig_termios>>
    /\ UNCHANGED hlVars

\* end of the pipe: the quit signal is sent
ReaderEof ==
    /\ Alive
    /\ readerpc = "read"
    /\ rpos = Len(pipe)
    /\ quit_sent' = quit_sent \cup {"reader"}
    /\ readerpc' = "done"
    /\ UNCHANGED <<mainpc, printerpc, keypc, is_pipe, pipe, rpos, lineq, rx_alive,
                   pr_line, pr_filter, stdout, stdout_lock, filter, filter_lock,
                   filter0, status_lines, tty, ttyin, kpos, keybuf, tty_lflags,
                   orig_termios>>
    /\ UNCHANGED hlVars

----------------------------------------------------------------------------
(* pipe printer thread, main.rs 178-189 *)

\* stdout.lock(), held until the thread's closure ends
PrinterLock ==
    /\ Alive
    /\ printerpc = "lock"
    /\ stdout_lock = "none"
    /\ stdout_lock' = "printer"
    /\ printerpc' = "recv"
    /\ UNCHANGED <<mainpc, readerpc, keypc, is_pipe, pipe, rpos, lineq, rx_alive,
                   pr_line, pr_filter, stdout, quit_sent, filter, filter_lock, filter0,
                   status_lines, tty, ttyin, kpos, keybuf, tty_lflags, orig_termios>>
    /\ UNCHANGED hlVars

\* Mutant: the newest line is received instead of the oldest.
PrinterRecvLifo ==
    /\ Alive
    /\ printerpc = "recv"
    /\ lineq # <<>>
    /\ pr_line' = lineq[Len(lineq)]
    /\ lineq' = SubSeq(lineq, 1, Len(lineq) - 1)
    /\ printerpc' = "snapshot"
    /\ UNCHANGED <<mainpc, readerpc, keypc, is_pipe, pipe, rpos, rx_alive, pr_filter,
                   stdout, stdout_lock, quit_sent, filter, filter_lock, filter0,
                   status_lines, tty, ttyin, kpos, keybuf, tty_lflags, orig_termios>>
    /\ UNCHANGED hlVars

\* `for line in rx_pipe`: the next line is received; main keeps a sender, so the
\* channel never disconnects while the process runs
PrinterRecv ==
    /\ Alive
    /\ printerpc = "recv"
    /\ lineq # <<>>
    /\ pr_line' = Head(lineq)
    /\ lineq' = Tail(lineq)
    /\ printerpc' = "snapshot"
    /\ UNCHANGED <<mainpc, readerpc, keypc, is_pipe, pipe, rpos, rx_alive, pr_filter,
                   stdout, stdout_lock, quit_sent, filter, filter_lock, filter0,
                   status_lines, tty, ttyin, kpos, keybuf, tty_lflags, orig_termios>>
    /\ UNCHANGED hlVars

\* Mutant: the filter is cloned without taking the mutex. A clone made while the
\* listener edits the string is a data race: it may see the old value, or the
\* length already changed and the byte not yet written.
PrinterSnapshotNoLock ==
    /\ Alive
    /\ printerpc = "snapshot"
    /\ pr_filter' \in (IF keypc = "mutate" THEN {filter, Append(filter, 0)} ELSE {filter})
    /\ printerpc' = "write"
    /\ UNCHANGED <<mainpc, readerpc, keypc, is_pipe, pipe, rpos, lineq, rx_alive,
                   pr_line, stdout, stdout_lock, quit_sent, filter, filter_lock,
                   filter0, status_lines, tty, ttyin, kpos, keybuf, tty_lflags,
                   orig_termios>>
    /\ UNCHANGED hlVars

\* filter_string.lock().unwrap().clone()
PrinterSnapshot ==
    /\ Alive
    /\ printerpc = "snapshot"
    /\ filter_lock = "none"
    /\ pr_filter' = filter
    /\ printerpc' = "write"
    /\ UNCHANGED <<mainpc, readerpc, keypc, is_pipe, pipe, rpos, lineq, rx_alive,
                   pr_line, stdout, stdout_lock, quit_sent, filter, filter_lock,
                   filter0, status_lines, tty, ttyin, kpos, keybuf, tty_lflags,
                   orig_termios>>
    /\ UNCHANGED hlVars

\* writeln!(out, "{}", highlighted_line) succeeds
PrinterWrite ==
    /\ Alive
    /\ printerpc = "write"
    /\ stdout' = Append(stdout, highlight_word_in_string(pr_line, pr_filter) \o <<NL>>)
    /\ pr_line' = <<>>
    /\ pr_filter' = <<>>
    /\ printerpc' = "recv"
    /\ UNCHANGED <<mainpc, readerpc, keypc, is_pipe, pipe, rpos, lineq, rx_alive,
                   stdout_lock, quit_sent, filter, filter_lock, filter0, status_lines,
                   tty, ttyin, kpos, keybuf, tty_lflags, orig_termios>>
    /\ UNCHANGED hlVars

\* Mutant: the loop ends on the failed write but the stdout guard is not dropped.
PrinterWriteFailKeepsLock ==
    /\ Alive
    /\ printerpc = "write"
    /\ pr_line' = <<>>
    /\ pr_filter' = <<>>
    /\ lineq' = <<>>
    /\ rx_alive' = FALSE
    /\ printerpc' = "done"
    /\ UNCHANGED <<mainpc, readerpc, keypc, is_pipe, pipe, rpos, stdout, stdout_lock,
                   quit_sent, filter, filter_lock, filter0, status_lines, tty, ttyin,
                   kpos, keybuf, tty_lflags, orig_termios>>
    /\ UNCHANGED hlVars

\* the write fails (stdout closed downstream): break, which drops `out` and rx_pipe
PrinterWriteFail ==
    /\ Alive
    /\ printerpc = "write"
    /\ pr_line' = <<>>
    /\ pr_filter' = <<>>
    /\ lineq' = <<>>
    /\ rx_alive' = FALSE
    /\ stdout_lock' = "none"
    /\ printerpc' = "done"
    /\ UNCHANGED <<mainpc, readerpc, keypc, is_pipe, pipe, rpos, stdout, quit_sent,
                   filter, filter_lock, filter0, status_lines, tty, ttyin, kpos, keybuf,
                   tty_lflags, orig_termios>>
    /\ UNCHANGED hlVars

----------------------------------------------------------------------------
(* key listener thread, main.rs 222-275 *)

\* term_in.read returns Ok(1) and the byte is matched
KeyRead ==
    /\ Alive
    /\ keypc = "read"
    /\ kpos < Len(ttyin)
    /\ kpos' = kpos + 1
    /\ keybuf' = ttyin[kpos + 1]
    /\ LET branch == KeyBranch(ttyin[kpos + 1])
       IN /\ keypc' = (IF branch = "quit" THEN "restore"
                       ELSE IF branch = "ignore" THEN "read"
                       ELSE "edit")
          /\ tty' = (IF branch = "quit" THEN Append(tty, TtyText(QUITTING)) ELSE tty)
          /\ quit_sent' = (IF branch = "quit" THEN quit_sent \cup {"key"} ELSE quit_sent)
    /\ UNCHANGED <<mainpc, readerpc, printerpc, is_pipe, pipe, rpos, lineq, rx_alive,
                   pr_line, pr_filter, stdout, stdout_lock, filter, filter_lock, filter0,
                   status_lines, ttyin, tty_lflags, orig_termios>>
    /\ UNCHANGED hlVars

\* filter_string_for_input.lock(): the filter mutex is taken
KeyLock ==
    /\ Alive
    /\ keypc = "edit"
    /\ filter_lock = "none"
    /\ filter_lock' = "key"
    /\ keypc' = "mutate"
    /\ UNCHANGED <<mainpc, readerpc, printerpc, is_pipe, pipe, rpos, lineq, rx_alive,
                   pr_line, pr_filter, stdout, stdout_lock, quit_sent, filter, filter0,
                   status_lines, tty, ttyin, kpos, keybuf, tty_lflags, orig_termios>>
    /\ UNCHANGED hlVars

\* Mutant: the backspace arm pops the filter without updating the status bar.
KeyEditSilentPop ==
    /\ Alive
    /\ keypc = "mutate"
    /\ IF KeyBranch(keybuf) = "backspace"
       THEN /\ filter' = filter_pop(filter)
            /\ keypc' = "read"
            /\ filter_lock' = "none"
       ELSE /\ filter' = filter_push(filter, keybuf)
            /\ keypc' = "status"
            /\ filter_lock' = "key"
    /\ UNCHANGED <<mainpc, readerpc, printerpc, is_pipe, pipe, rpos, lineq, rx_alive,
                   pr_line, pr_filter, stdout, stdout_lock, quit_sent, filter0,
                   status_lines, tty, ttyin, kpos, keybuf, tty_lflags, orig_termios>>
    /\ UNCHANGED hlVars

\* the filter is edited under the mutex; a backspace on an empty filter ends the
\* arm, which releases the mutex; otherwise status.update begins with it held
KeyEdit ==
    /\ Alive
    /\ keypc = "mutate"
    /\ IF KeyBranch(keybuf) = "backspace"
       THEN /\ filter' = filter_pop(filter)
            /\ keypc' = (IF filter # <<>> THEN "status" ELSE "read")
            /\ filter_lock' = (IF filter # <<>> THEN "key" ELSE "none")
       ELSE /\ filter' = filter_push(filter, keybuf)
            /\ keypc' = "status"
            /\ filter_lock' = "key"
    /\ UNCHANGED <<mainpc, readerpc, printerpc, is_pipe, pipe, rpos, lineq, rx_alive,
                   pr_line, pr_filter, stdout, stdout_lock, quit_sent, filter0,
                   status_lines, tty, ttyin, kpos, keybuf, tty_lflags, orig_termios>>
    /\ UNCHANGED hlVars

\* status.update(1, ...) completes with the filter mutex still held; both guards
\* are then dropped
KeyStatus ==
    /\ Alive
    /\ keypc = "status"
    /\ status_lines' = update_lines(status_lines, 1, StatusText(filter))
    /\ tty' = tty \o update_writes(status_lines, 1, StatusText(filter))
    /\ filter_lock' = "none"
    /\ keypc' = "read"
    /\ UNCHANGED <<mainpc, readerpc, printerpc, is_pipe, pipe, rpos, lineq, rx_alive,
                   pr_line, pr_filter, stdout, stdout_lock, quit_sent, filter, filter0,
                   ttyin, kpos, keybuf, tty_lflags, orig_termios>>
    /\ UNCHANGED hlVars

\* the read returns WouldBlock: the loop goes round
KeyWouldBlock ==
    /\ Alive
    /\ keypc = "read"
    /\ UNCHANGED vars

\* the read fails with another error, or returns Ok(0): break
KeyReadFail ==
    /\ Alive
    /\ keypc = "read"
    /\ keypc' = "restore"
    /\ UNCHANGED <<mainpc, readerpc, printerpc, is_pipe, pipe, rpos, lineq, rx_alive,
                   pr_line, pr_filter, stdout, stdout_lock, quit_sent, filter,
                   filter_lock, filter0, status_lines, tty, ttyin, kpos, keybuf,
                   tty_lflags, orig_termios>>
    /\ UNCHANGED hlVars

\* tcsetattr(fd, TCSANOW, &orig_termios) after the loop
KeyRestore ==
    /\ Alive
    /\ keypc = "restore"
    /\ tty_lflags' = orig_termios
    /\ keypc' = "done"
    /\ UNCHANGED <<mainpc, readerpc, printerpc, is_pipe, pipe, rpos, lineq, rx_alive,
                   pr_line, pr_filter, stdout, stdout_lock, quit_sent, filter,
                   filter_lock, filter0, status_lines, tty, ttyin, kpos, keybuf,
                   orig_termios>>
    /\ UNCHANGED hlVars

----------------------------------------------------------------------------

Next ==
    \/ MainSetup
    \/ MainDraw
    \/ MainSpawnPipe
    \/ MainRawMode
    \/ MainRecv
    \/ MainReset
    \/ MainExit
    \/ ReaderSend
    \/ ReaderEof
    \/ PrinterLock
    \/ PrinterRecv
    \/ PrinterSnapshot
    \/ PrinterWrite
    \/ PrinterWriteFail
    \/ KeyRead
    \/ KeyLock
    \/ KeyEdit
    \/ KeyStatus
    \/ KeyWouldBlock
    \/ KeyReadFail
    \/ KeyRestore

Spec == Init /\ [][Next]_vars

\* The steps of each thread::spawn closure and of main. The threads are operating
\* system threads: one that can take a step is eventually scheduled.
MainStep == MainSetup \/ MainDraw \/ MainSpawnPipe \/ MainRawMode \/ MainRecv \/ MainReset \/ MainExit
ReaderStep == ReaderSend \/ ReaderEof
PrinterStep == PrinterLock \/ PrinterRecv \/ PrinterSnapshot \/ PrinterWrite \/ PrinterWriteFail
KeyStep == KeyLock \/ KeyEdit \/ KeyStatus \/ KeyRestore

\* Pipe mode, with at most one key typed: the runs in which a write of the
\* printer's can fail.
FairInit ==
    /\ Init
    /\ is_pipe
    /\ ttyin \in SeqsUpTo(MainKeys, 1)

FairSpec ==
    /\ FairInit /\ [][Next]_vars
    /\ WF_vars(MainStep)
    /\ WF_vars(ReaderStep)
    /\ WF_vars(PrinterStep)
    /\ WF_vars(KeyStep)

----------------------------------------------------------------------------
(* highlight_word_in_string on its own: the arguments are drawn from the   *)
(* strings over 'a' and 'b', and the one action is the call.               *)

HlAlphabet == {97, 98}

\* The program state of an interactive run on a cooked terminal with nothing typed.
ProgIdle ==
    /\ mainpc = "start"
    /\ readerpc = "none"
    /\ printerpc = "none"
    /\ keypc = "none"
    /\ is_pipe = FALSE
    /\ pipe = <<>>
    /\ rpos = 0
    /\ lineq = <<>>
    /\ rx_alive = TRUE
    /\ pr_line = <<>>
    /\ pr_filter = <<>>
    /\ stdout = <<>>
    /\ stdout_lock = "none"
    /\ quit_sent = {}
    /\ filter = DefaultFilter
    /\ filter_lock = "none"
    /\ filter0 = DefaultFilter
    /\ status_lines = <<<<>>, <<>>, <<>>>>
    /\ tty = <<>>
    /\ ttyin = <<>>
    /\ kpos = 0
    /\ keybuf = 0
    /\ tty_lflags = {"ICANON", "ECHO"}
    /\ orig_termios = {}

HlInit ==
    /\ ProgIdle
    /\ hl_string \in SeqsUpTo(HlAlphabet, MaxStrLen)
    /\ hl_word \in SeqsUpTo(HlAlphabet, MaxWordLen)
    /\ hl_result = <<>>
    /\ hl_called = FALSE

HlCall ==
    /\ ~hl_called
    /\ hl_result' = highlight_word_in_string(hl_string, hl_word)
    /\ hl_called' = TRUE
    /\ UNCHANGED <<hl_string, hl_word>>
    /\ UNCHANGED progVars

HlNext == HlCall

HighlightSpec == HlInit /\ [][HlNext]_vars

----------------------------------------------------------------------------
(* The key listener on its own, started on any filter value: the state of  *)
(* an interactive run when main waits at quit_rx.recv(), had filter_string *)
(* been created as f.                                                      *)

\* 'a', 'b', backspace, delete, 'q', and a control byte that no arm matches
EditKeys == {97, 98, 8, 127, KEY_Q, 1}

EditInit ==
    /\ mainpc = "recv"
    /\ readerpc = "none"
    /\ printerpc = "none"
    /\ keypc = "read"
    /\ is_pipe = FALSE
    /\ pipe = <<>>
    /\ rpos = 0
    /\ lineq = <<>>
    /\ rx_alive = TRUE
    /\ pr_line = <<>>
    /\ pr_filter = <<>>
    /\ stdout = <<SAVE_CURSOR, CLEAR_SCREEN, ScrollRegionSeq(0, Rows - 4), RESTORE_CURSOR>>
    /\ stdout_lock = "none"
    /\ quit_sent = {}
    /\ filter \in SeqsUpTo(HlAlphabet, MaxFilterLen)
    /\ filter_lock = "none"
    /\ filter0 = filter
    /\ status_lines = <<<<>>, StatusText(filter), <<>>>>
    /\ tty = <<>>
    /\ ttyin \in SeqsUpTo(EditKeys, MaxEditKeys)
    /\ kpos = 0
    /\ keybuf = 0
    /\ tty_lflags = {}
    /\ orig_termios = {"ICANON", "ECHO"}
    /\ HlIdle

EditNext ==
    \/ KeyRead
    \/ KeyLock
    \/ KeyEdit
    \/ KeyStatus
    \/ KeyWouldBlock
    \/ KeyReadFail
    \/ KeyRestore

EditSpec == EditInit /\ [][EditNext]_vars

----------------------------------------------------------------------------
(* Vocabulary of the properties. *)

\* w occurs in s as a contiguous substring
OccursIn(w, s) == \E i \in 0..(Len(s) - Len(w)) : SubSeq(s, i + 1, i + Len(w)) = w

\* the least index at which w occurs in s
FirstOccurrence(w, s) ==
    CHOOSE i \in 1..(Len(s) + 1) :
        /\ SubSeq(s, i, i + Len(w) - 1) = w
        /\ \A j \in 1..(i - 1) : SubSeq(s, j, j + Len(w) - 1) # w

\* s with only the first occurrence of w wrapped in the highlight and reset markers
WrapFirst(s, w) ==
    LET p == FirstOccurrence(w, s)
    IN SubSeq(s, 1, p - 1) \o HL \o w \o RESET \o SubSeq(s, p + Len(w), Len(s))

\* the occurrences of w in s taken left to right without overlap: an occurrence
\* is taken exactly when no earlier taken occurrence covers its first byte
TakenOccurrences(s, w) ==
    LET all == {i \in 1..Len(s) : i + Len(w) - 1 <= Len(s) /\ SubSeq(s, i, i + Len(w) - 1) = w}
    IN CHOOSE T \in SUBSET all :
          \A p \in all : (p \in T) <=> ~(\E q \in T : q < p /\ p < q + Len(w))

\* s with every taken occurrence of w wrapped, built byte by byte
RECURSIVE WrapPieces(_, _, _, _)
WrapPieces(s, w, T, i) ==
    IF i > Len(s) THEN <<>>
    ELSE (IF i \in T THEN HL \o w \o RESET
          ELSE IF \E q \in T : q < i /\ i < q + Len(w) THEN <<>>
          ELSE <<s[i]>>) \o WrapPieces(s, w, T, i + 1)

WrapEach(s, w) == WrapPieces(s, w, TakenOccurrences(s, w), 1)

IsPrefixAt(m, s, i) ==
    /\ i + Len(m) - 1 <= Len(s)
    /\ \A k \in 1..Len(m) : s[i + k - 1] = m[k]

\* s with every highlight and reset marker removed
RECURSIVE StripFrom(_, _)
StripFrom(s, i) ==
    IF i > Len(s) THEN <<>>
    ELSE IF IsPrefixAt(HL, s, i) THEN StripFrom(s, i + Len(HL))
    ELSE IF IsPrefixAt(RESET, s, i) THEN StripFrom(s, i + Len(RESET))
    ELSE <<s[i]>> \o StripFrom(s, i + 1)

StripMarkers(s) == StripFrom(s, 1)

\* the lines written to stdout: the writes that end in a newline, without it
IsLineWrite(w) == w # <<>> /\ w[Len(w)] = NL
WrittenLines ==
    LET ws == SelectSeq(stdout, IsLineWrite)
    IN [i \in 1..Len(ws) |-> SubSeq(ws[i], 1, Len(ws[i]) - 1)]

\* the terminal control sequences the program issues
TerminalControl ==
    {SAVE_CURSOR, RESTORE_CURSOR, CLEAR_SCREEN, ScrollRegionSeq(0, Rows - 4), RESET_REGION}

\* the shutdown signal has fired: a first message was sent on the quit channel
ShutdownFired == quit_sent # {}

\* main waits for the stdout lock, the printer holds it and waits for a line
\* that cannot come: the reader is done and the queue is empty, and the channel
\* stays connected because main owns a sender
ShutdownStuck ==
    /\ mainpc = "reset"
    /\ stdout_lock = "printer"
    /\ printerpc = "recv"
    /\ lineq = <<>>
    /\ readerpc = "done"

\* byte b, handled with the filter at f, changes the filter
Mutates(b, f) ==
    \/ KeyBranch(b) = "printable"
    \/ KeyBranch(b) = "backspace" /\ f # <<>>

IsPrintableNonQuit(b) == b >= 32 /\ b <= 126 /\ b # KEY_Q
IsBackspace(b) == b = 8 \/ b = 127

\* the bytes read so far are k printable non-quit bytes followed by j backspaces
ReadShape(k, j) ==
    /\ kpos = k + j
    /\ \A i \in 1..k : IsPrintableNonQuit(ttyin[i])
    /\ \A i \in (k + 1)..(k + j) : IsBackspace(ttyin[i])

\* the filter after the first n typed bytes have been handled
RECURSIVE FilterAfter(_)
FilterAfter(n) ==
    IF n = 0 THEN filter0
    ELSE LET f == FilterAfter(n - 1)
             b == ttyin[n]
         IN IF IsPrintableNonQuit(b) THEN Append(f, b)
            ELSE IF IsBackspace(b) /\ f # <<>> THEN SubSeq(f, 1, Len(f) - 1)
            ELSE f

\* the key listener is between reading a byte and finishing the arm that handles it
KeyHandling == keypc \in {"edit", "mutate", "status"}

\* the listener's loop is running: a byte is being read or handled
KeyInLoop == keypc \in {"read", "edit", "mutate", "status"}

\* the listener has left its loop by one of the three breaks
KeyLoopLeft == keypc \in {"restore", "done"}

\* the listener thread is over: its closure returned, or the process ended under it
KeyThreadEnded == keypc = "done" \/ (keypc # "none" /\ mainpc = "exited")

\* the raw mode main sets: the captured flags without ICANON and ECHO
RawFlags == orig_termios \ {"ICANON", "ECHO"}

\* a write of main's to /dev/tty is in progress
MainDrawing == mainpc = "draw"

\* a redraw of the key listener's on /dev/tty is in progress
KeyDrawing == keypc = "status"

----------------------------------------------------------------------------
(* The claims. *)

\* C1 (as claimed): when both the quit key and the pipe's end-of-stream have
\* signalled, the program is never left hanging: main is never stuck behind
\* the stdout lock of a printer that waits forever. Violated by the code.
C1_NoHangAfterBothSignals ==
    quit_sent = {"key", "reader"} => ~ShutdownStuck

\* C2 (as claimed): when the process exits, the terminal's mode flags are those
\* captured at startup. Violated by the code.
C2_ModeRestoredAtExit ==
    mainpc = "exited" => tty_lflags = orig_termios

C4_AllLinesWrittenAtExit ==
    (mainpc = "exited" /\ is_pipe /\ "key" \notin quit_sent /\ printerpc # "done")
        => Len(WrittenLines) = rpos

\* C5 (as claimed): once the shutdown signal has fired, the printer begins no new
\* dequeue and the key listener reads no new byte that changes the filter.
\* Violated by the code.
C5_NoNewWorkAfterShutdown ==
    [][ShutdownFired =>
          /\ ~(printerpc = "recv" /\ printerpc' = "snapshot")
          /\ ~(keypc = "read" /\ keypc' = "edit" /\ Mutates(keybuf', filter))]_vars

C7_EmptyTermUnchanged ==
    (hl_called /\ hl_word = <<>>) => hl_result = hl_string

\* C8: a non-empty term that does not occur in the line leaves it unchanged.
C8_NoMatchUnchanged ==
    (hl_called /\ hl_word # <<>> /\ ~OccursIn(hl_word, hl_string))
        => hl_result = hl_string

\* C8 witness: a call with a term that shares its first byte with the line
\* but does not occur in it.
C8_Witness ==
    /\ hl_called
    /\ Len(hl_word) = 2
    /\ Len(hl_string) >= 2
    /\ OccursIn(<<hl_word[1]>>, hl_string)
    /\ ~OccursIn(hl_word, hl_string)
    /\ hl_result = hl_string

\* C9 (as claimed): no terminal control sequence is written to stdout.
\* Violated by the code.
C9_NoControlOnStdout ==
    \A i \in 1..Len(stdout) : stdout[i] \notin TerminalControl

\* C10: when the key listener has handled k printable non-quit bytes followed by
\* j <= k backspace or delete bytes, the filter is the starting filter followed
\* by the first k - j of those bytes; and backspaces alone leave an empty
\* filter empty.
C10_EditRoundTrip ==
    keypc \notin {"edit", "mutate"} =>
        /\ \A k \in 0..kpos : \A j \in 0..k :
              ReadShape(k, j) => filter = filter0 \o SubSeq(ttyin, 1, k - j)
        /\ (filter0 = <<>> /\ ReadShape(0, kpos)) => filter = <<>>

\* C10 witness: two bytes appended and both erased again on a non-empty filter.
C10_Witness ==
    /\ keypc = "read"
    /\ ReadShape(2, 2)
    /\ filter0 # <<>>
    /\ filter = filter0

\* C11: the printer's snapshot of the filter is always the filter as it stood
\* after some whole number of handled bytes: never a value in the middle of an edit.
C11_SnapshotIsWholeValue ==
    printerpc = "write" => \E n \in 0..kpos : pr_filter = FilterAfter(n)

\* C11 witness: the printer holds a snapshot taken after one edit while the
\* listener is in the middle of the next edit, holding the mutex.
C11_Witness ==
    /\ printerpc = "write"
    /\ keypc = "mutate"
    /\ kpos = 2
    /\ pr_filter = FilterAfter(1)
    /\ pr_filter # filter0

\* C12: the step in which the listener reads 'q' sends the listener's one quit
\* signal and leaves the loop with the filter and the status lines untouched;
\* once out of the loop the listener reads no further byte, edits nothing and
\* sends nothing more.
C12_QuitKeyLeavesLoop ==
    [][ /\ (keypc = "read" /\ kpos' = kpos + 1 /\ ttyin[kpos'] = KEY_Q)
            => /\ "key" \notin quit_sent
               /\ quit_sent' = quit_sent \cup {"key"}
               /\ keypc' = "restore"
               /\ filter' = filter
               /\ status_lines' = status_lines
        /\ keypc \in {"restore", "done"}
            => /\ kpos' = kpos
               /\ filter' = filter
               /\ status_lines' = status_lines
               /\ ("key" \in quit_sent') = ("key" \in quit_sent)
               /\ keypc' \in {"restore", "done"} ]_vars

\* C12 witness: 'q' was read after an edit; the listener is out of the loop,
\* the signal is sent and the filter is the one the edit left.
C12_Witness ==
    /\ keypc = "restore"
    /\ kpos = 2
    /\ ttyin[kpos] = KEY_Q
    /\ "key" \in quit_sent
    /\ filter = FilterAfter(1)
    /\ filter # filter0
    /\ status_lines[2] = StatusText(filter)

\* C13: in interactive mode, where only the listener can drive shutdown, a
\* listener that has left its loop (for any reason, a failed read or an end
\* of file included) has sent the quit signal that unblocks main.
C13_LoopExitSignalsShutdown ==
    (~is_pipe /\ keypc \in {"restore", "done"}) => ShutdownFired

\* C14: once a write of a line has failed the printer is out of its loop for
\* good, holds no stdout lock and writes no further line; the line channel is
\* closed and the reader's later sends leave nothing behind; a reader that has
\* reached the end of the stream has sent its quit signal; and the program exits.
C14_WriteFailureEndsCleanly ==
    /\ [](printerpc = "done" => (stdout_lock # "printer" /\ ~rx_alive /\ lineq = <<>>))
    /\ [][printerpc = "done" => (printerpc' = "done" /\ WrittenLines' = WrittenLines)]_vars
    /\ [](readerpc = "done" => "reader" \in quit_sent)
    /\ (printerpc = "done") ~> (mainpc = "exited")

\* C14 witness: the write of the first of two lines failed, the reader went on
\* to the end of the stream and signalled, and main has returned.
C14_Witness ==
    /\ printerpc = "done"
    /\ Len(pipe) = 2
    /\ rpos = 2
    /\ WrittenLines = <<>>
    /\ readerpc = "done"
    /\ quit_sent = {"reader"}
    /\ mainpc = "exited"

\* C15 (as claimed): while the listener's loop runs the terminal is in raw mode,
\* and a listener thread that has left its loop and is over has restored the
\* mode captured at startup. Violated by the code.
C15_RestoredWhenThreadEnds ==
    /\ KeyInLoop => tty_lflags = RawFlags
    /\ (KeyLoopLeft /\ KeyThreadEnded) => tty_lflags = orig_termios

\* C16 (as claimed): no write to the terminal device is made while the filter
\* mutex is held, so a printer about to take its snapshot never waits for a
\* status-bar redraw. Violated by the code.
C16_NoTerminalWriteUnderFilterLock ==
    /\ [][tty' # tty => filter_lock = "none"]_vars
    /\ [](printerpc = "snapshot" => ~(filter_lock = "key" /\ keypc = "status"))

\* C17: once the initial status bar is drawn, and whenever the key listener is
\* not in the middle of handling a byte, status line 1 is the text made from the
\* current filter and status lines 0 and 2 are empty.
C17_StatusShowsFilter ==
    (mainpc \notin {"start", "draw"} /\ ~KeyHandling)
        => status_lines = <<<<>>, StatusText(filter), <<>>>>

\* C17 witness: an append and a backspace have both been handled and the status
\* line shows the filter they left, which is the starting one again.
C17_Witness ==
    /\ keypc = "read"
    /\ kpos = 2
    /\ IsPrintableNonQuit(ttyin[1])
    /\ IsBackspace(ttyin[2])
    /\ filter = filter0
    /\ status_lines[2] = StatusText(filter)
    /\ tty[Len(tty)] = TtyRedraw(status_lines)

\* C20: no two writers are ever in the middle of a write to /dev/tty together,
\* and every step that writes to /dev/tty is taken while no other thread's
\* write is in progress.
C20_TtyWritesExclusive ==
    /\ [](~(MainDrawing /\ KeyDrawing))
    /\ [][tty' # tty => IF mainpc' # mainpc THEN ~KeyDrawing ELSE ~MainDrawing]_vars

\* C20 witness: main's startup redraws are on the terminal, then a redraw of the
\* listener's, then the quit notice, one after the other.
C20_Witness ==
    /\ keypc = "restore"
    /\ kpos = 2
    /\ Len(tty) = 7
    /\ tty[5] = TtyText(RowsText(Rows))
    /\ tty[6].op = "redraw"
    /\ tty[7] = TtyText(QUITTING)

\* C18 (as claimed): in pipe mode, whenever main has received the shutdown signal
\* and its reset_scroll_region waits for the stdout lock the printer holds, the
\* printer can still move towards releasing it: it has a line to handle, or the
\* reader can still send one, or its loop can end. Violated by the code.
C18_ResetNeverWaitsForGood ==
    (is_pipe /\ mainpc = "reset" /\ stdout_lock = "printer")
        => (ENABLED PrinterStep \/ ENABLED ReaderStep)

\* C19: main is past its wait only when a shutdown trigger has fired; in
\* interactive mode there is no reader and no printer, nothing is queued or
\* printed, the only trigger there can be is the quit key, and main is still
\* waiting for as long as the key listener is in its loop handling bytes.
C19_MainWaitsForTrigger ==
    /\ mainpc \in {"reset", "return", "exited"} => ShutdownFired
    /\ ~is_pipe => /\ readerpc = "none"
                   /\ printerpc = "none"
                   /\ lineq = <<>>
                   /\ WrittenLines = <<>>
                   /\ quit_sent \subseteq {"key"}
    /\ (~is_pipe /\ KeyInLoop) => mainpc = "recv"

\* C19 witness: interactive mode; an edit was accepted while main waited, then
\* the quit key was read and main went through cleanup and returned.
C19_Witness ==
    /\ ~is_pipe
    /\ mainpc = "exited"
    /\ kpos = 2
    /\ filter = Append(filter0, ttyin[1])
    /\ ttyin[2] = KEY_Q
    /\ quit_sent = {"key"}

====
